---- MODULE Spec2Model ----
(***************************************************************************)
(* A model of api_youtube.py: the Separator engine (padding, patch         *)
(* extraction, batched mask inference, test-time augmentation, mask        *)
(* application) and the /separate request handler that drives it.          *)
(*                                                                         *)
(* A spectrogram is modelled along its time axis only (one channel, one    *)
(* frequency bin): no operation of the engine mixes channels or bins.      *)
(* Its elements are exact rationals <<n, d>> in lowest terms, d > 0; a     *)
(* denominator of 0 stands for the non-finite floating-point values:       *)
(* <<0, 0>> is NaN, <<1, 0>> is +inf, <<-1, 0>> is -inf.  Elements are     *)
(* real-valued (imaginary part 0), so np.abs is the absolute value and the *)
(* lexicographic max of a complex array is the max of the real parts.      *)
(***************************************************************************)
EXTENDS Integers, Sequences, FiniteSets, TLC

VARIABLES th, req, fs

vars == <<th, req, fs>>

-----------------------------------------------------------------------------
(* Bounds of the model                                                     *)

MaxFrames == 3
MaxAmp == 1
MaxCrop == 3
MaxOffset == 1
MaxBatch == 2
SplitFrames == 2
MaskSteps == 2
NumLinks == 2
AudioFrames == 513

\* the two concurrent requests of the scenario; the engine's own caller is 1
Threads == {1, 2}

-----------------------------------------------------------------------------
(* Floating-point values as exact rationals with NaN and infinities        *)

Abs(x) == IF x < 0 THEN -x ELSE x

Sgn(x) == IF x < 0 THEN -1 ELSE IF x > 0 THEN 1 ELSE 0

Min(a, b) == IF a < b THEN a ELSE b

RECURSIVE GCD(_, _)
GCD(a, b) == IF b = 0 THEN a ELSE GCD(b, a % b)

Q(n, d) ==
    IF d = 0 THEN <<Sgn(n), 0>>
    ELSE LET g == GCD(Abs(n), Abs(d))
         IN  <<Sgn(d) * Sgn(n) * (Abs(n) \div g), Abs(d) \div g>>

NaN == <<0, 0>>

Zero == <<0, 1>>

IsFinite(a) == a[2] # 0

QNeg(a) == <<-a[1], a[2]>>

QAbs(a) == <<Abs(a[1]), a[2]>>

QMul(a, b) == Q(a[1] * b[1], a[2] * b[2])

QAdd(a, b) ==
    IF a[2] = 0 /\ b[2] = 0
    THEN (IF a = b THEN a ELSE NaN)
    ELSE Q(a[1] * b[2] + b[1] * a[2], a[2] * b[2])

QSub(a, b) == QAdd(a, QNeg(b))

QDiv(a, b) == Q(a[1] * b[2], a[2] * b[1])

QLess(a, b) == a[1] * b[2] < b[1] * a[2]

Range(s) == {s[k] : k \in 1..Len(s)}

\* ndarray.max() of a non-empty array: NaN propagates
ArrayMax(s) ==
    IF NaN \in Range(s) THEN NaN
    ELSE CHOOSE e \in Range(s) : \A o \in Range(s) : ~QLess(e, o)

\* a[lo:hi] on the time axis (0-based, hi exclusive, clamped to the array)
Slice(s, lo, hi) == SubSeq(s, lo + 1, Min(hi, Len(s)))

Zeros(n) == [k \in 1..n |-> Zero]

\* np.pad(X, ((0, 0), (0, 0), (pad_l, pad_r)), mode='constant'): a new array
Pad(X, pad_l, pad_r) == Zeros(pad_l) \o X \o Zeros(pad_r)

\* X /= divisor, elementwise
DivideBy(X, divisor) == [k \in 1..Len(X) |-> QDiv(X[k], divisor)]

RECURSIVE Flatten(_)
Flatten(ss) == IF ss = <<>> THEN <<>> ELSE Head(ss) \o Flatten(Tail(ss))

\* the length numpy broadcasting gives two time axes, -1 when they do not match
BroadcastLen(la, lb) ==
    IF la = lb THEN la ELSE IF la = 1 THEN lb ELSE IF lb = 1 THEN la ELSE -1

Bcast(a, k) == IF Len(a) = 1 THEN a[1] ELSE a[k]

-----------------------------------------------------------------------------
(* Collaborators that api_youtube.py imports from vocal_remover.lib        *)

\* dataset.make_padding: the Padding Planner
make_padding(width, cropsize, offset) ==
    LET roi_size == cropsize - 2 * offset
    IN  IF roi_size <= 0
        THEN [ok |-> FALSE, left |-> 0, right |-> 0, roi_size |-> roi_size]
        ELSE LET steps == (width + roi_size - 1) \div roi_size
             IN  [ok |-> TRUE, left |-> offset,
                  right |-> steps * roi_size - width + offset,
                  roi_size |-> roi_size]

\* one mask frame of the deterministic network, from the frames within
\* `offset` of it on either side
NetFrame(w, offset) ==
    IF \E k \in 1..Len(w) : ~IsFinite(w[k]) THEN NaN
    ELSE LET c == w[offset + 1]
             s == Cardinality({k \in 1..Len(w) : w[k] # Zero})
         IN  Q(Abs(c[1]), Abs(c[1]) + c[2] + s)

\* model.predict_mask on one crop: the mask of the crop's prediction region
PredictCrop(crop, offset) ==
    IF Len(crop) <= 2 * offset THEN <<>>
    ELSE [k \in 1..(Len(crop) - 2 * offset) |->
             NetFrame(SubSeq(crop, k, k + 2 * offset), offset)]

\* spec_utils.merge_artifacts: a high mask magnitude on a single frame whose
\* neighbours are both low is suppressed
IsHigh(a) == IsFinite(a) /\ QLess(<<1, 2>>, a)

merge_artifacts(mag) ==
    [k \in 1..Len(mag) |->
        IF /\ IsHigh(mag[k])
           /\ (k > 1 => ~IsHigh(mag[k - 1]))
           /\ (k < Len(mag) => ~IsHigh(mag[k + 1]))
        THEN Zero ELSE mag[k]]

-----------------------------------------------------------------------------
(* class Separator                                                         *)

\* Separator.__init__
Separator(offset, batchsize, cropsize, postprocess) ==
    [offset |-> offset, batchsize |-> batchsize, cropsize |-> cropsize,
     postprocess |-> postprocess]

Raise(f, e) == [f EXCEPT !.pc = "raised", !.err = e]

\* mask_mag * np.exp(1.j * np.angle(mask))
WithPhase(mag, mask) ==
    [k \in 1..Len(mag) |->
        IF ~IsFinite(mask[k]) THEN NaN
        ELSE IF mask[k][1] < 0 THEN QNeg(mag[k]) ELSE mag[k]]

postprocess_mask(sp, mask) ==
    IF sp.postprocess
    THEN WithPhase(merge_artifacts([k \in 1..Len(mask) |-> QAbs(mask[k])]), mask)
    ELSE mask

\* a slip in line 33: the mask's complement is taken of the product
SplitResidual_swapped(X_spec, y_spec) ==
    [k \in 1..Len(X_spec) |-> QSub(y_spec[k], X_spec[k])]

\* Separator._postprocess, lines 32-35: y_spec, v_spec
SplitResidual(X_spec, y_spec) ==
    [k \in 1..Len(X_spec) |-> QSub(X_spec[k], y_spec[k])]

postprocess(f, mask) ==
    LET m == postprocess_mask(f.sp, mask)
        n == BroadcastLen(Len(f.X_spec), Len(m))
    IN  IF n < 0 THEN Raise(f, "broadcast")
        ELSE LET y_spec == [k \in 1..n |-> QMul(Bcast(f.X_spec, k), Bcast(m, k))]
             IN  [f EXCEPT !.mask = mask, !.y_spec = y_spec,
                           !.v_spec = SplitResidual(f.X_spec, y_spec),
                           !.pc = "returned"]

\* a slip in line 41: patches laid side by side, start = i * cropsize
Crop_no_overlap(X_spec_pad, i, roi_size, cropsize) ==
    Slice(X_spec_pad, i * cropsize, i * cropsize + cropsize)

\* Separator._separate, line 42: patch i of the padded spectrogram
Crop(X_spec_pad, i, roi_size, cropsize) ==
    Slice(X_spec_pad, i * roi_size, i * roi_size + cropsize)

\* Separator._separate, lines 38-47
separate_extract(f, X_spec_pad, roi_size) ==
    LET patches == (Len(X_spec_pad) - 2 * f.sp.offset) \div roi_size
        X_dataset == IF patches <= 0 THEN <<>>
                     ELSE [i \in 1..patches |->
                              Crop(X_spec_pad, i - 1, roi_size, f.sp.cropsize)]
    IN  IF \E i \in 1..Len(X_dataset) : Len(X_dataset[i]) # Len(X_dataset[1])
        THEN Raise(f, "asarray")
        ELSE [f EXCEPT !.X_spec_pad = X_spec_pad, !.roi_size = roi_size,
                       !.patches = patches, !.X_dataset = X_dataset,
                       !.i = 0, !.mask_list = <<>>, !.pc = "batch"]

\* a slip in line 52: a last batch that is not full is dropped
BatchOf_drop_last(X_dataset, i, batchsize) ==
    IF i + batchsize > Len(X_dataset) THEN <<>> ELSE Slice(X_dataset, i, i + batchsize)

\* Separator._separate, line 52
BatchOf(X_dataset, i, batchsize) == Slice(X_dataset, i, i + batchsize)

\* Separator._separate, lines 55-58: the masks of a batch, joined in time
BatchMask(X_batch, offset) ==
    Flatten([j \in 1..Len(X_batch) |-> PredictCrop(X_batch[j], offset)])

\* Separator._separate, lines 51-59: one pass of the loop
separate_batch(f) ==
    LET X_batch == BatchOf(f.X_dataset, f.i, f.sp.batchsize)
    IN  [f EXCEPT !.mask_list = Append(@, BatchMask(X_batch, f.sp.offset)),
                  !.i = @ + f.sp.batchsize,
                  !.predicts = @ + 1]

\* a slip around line 55: the failed batch is skipped and the loop goes on
separate_batch_skips(f) ==
    [f EXCEPT !.i = @ + f.sp.batchsize, !.predicts = @ + 1, !.err = "predict_mask"]

\* Separator._separate, line 55 raising: nothing in _separate catches it
separate_batch_raises(f) == Raise([f EXCEPT !.predicts = @ + 1], "predict_mask")

\* the mask the last call of _separate returned to its caller
Returned(f) == f.rets[Len(f.rets)]

\* a slip in line 61: no batch at all yields an empty mask
separate_concat_empty(f) ==
    [f EXCEPT !.rets = Append(@, Flatten(f.mask_list)), !.pc = "separated"]

\* Separator._separate, lines 61-63
separate_concat(f) ==
    IF f.mask_list = <<>> THEN Raise(f, "concatenate")
    ELSE [f EXCEPT !.rets = Append(@, Flatten(f.mask_list)),
                   !.pc = "separated"]

\* Separator.separate, line 69
separate_divisor(X_spec, X_spec_pad) == ArrayMax([k \in 1..Len(X_spec) |-> QAbs(X_spec[k])])

\* Separator.separate_tta, lines 82 and 89
separate_tta_divisor(X_spec, X_spec_pad) == ArrayMax(X_spec_pad)

\* a slip in lines 68-69: the caller's array is normalised too
pad_normalize_in_place(f, pad_l, pad_r, divisor) ==
    [f EXCEPT !.pad_l = pad_l, !.pad_r = pad_r,
              !.X_spec = DivideBy(f.X_spec, divisor),
              !.X_spec_pad = DivideBy(Pad(f.X_spec, pad_l, pad_r), divisor)]

\* Separator.separate, lines 68-69, and Separator.separate_tta, lines 81-82
\* and 88-89: the padded copy is what is normalised
pad_normalize(f, pad_l, pad_r, divisor) ==
    [f EXCEPT !.pad_l = pad_l, !.pad_r = pad_r,
              !.X_spec_pad = DivideBy(Pad(f.X_spec, pad_l, pad_r), divisor)]

\* Separator.separate, lines 66-71, up to the loop of _separate
separate_enter(f) ==
    LET plan == make_padding(Len(f.X_spec), f.sp.cropsize, f.sp.offset)
        g == [f EXCEPT !.method = "separate", !.pass = "A",
                       !.n_frame = Len(f.X_spec), !.roi_size = plan.roi_size]
    IN  IF ~plan.ok THEN Raise(g, "make_padding")
        ELSE IF Len(f.X_spec) = 0 THEN Raise(g, "max")
        ELSE LET X_spec_pad == Pad(f.X_spec, plan.left, plan.right)
                 h == pad_normalize(g, plan.left, plan.right,
                                    separate_divisor(f.X_spec, X_spec_pad))
             IN  separate_extract(h, h.X_spec_pad, plan.roi_size)

\* Separator.separate, lines 72-76
separate_finish(f) == postprocess(f, Slice(Returned(f), 0, f.n_frame))

\* Separator.separate_tta, lines 79-84, up to the loop of _separate
separate_tta_enter(f) ==
    LET plan == make_padding(Len(f.X_spec), f.sp.cropsize, f.sp.offset)
        g == [f EXCEPT !.method = "separate_tta", !.pass = "A",
                       !.n_frame = Len(f.X_spec), !.roi_size = plan.roi_size]
        X_spec_pad == Pad(f.X_spec, plan.left, plan.right)
    IN  IF ~plan.ok THEN Raise(g, "make_padding")
        ELSE IF Len(X_spec_pad) = 0 THEN Raise(g, "max")
        ELSE LET h == pad_normalize(g, plan.left, plan.right,
                                    separate_tta_divisor(f.X_spec, X_spec_pad))
             IN  separate_extract(h, h.X_spec_pad, plan.roi_size)

\* Separator.separate_tta, lines 86-91, up to the loop of _separate
separate_tta_second(f) ==
    LET pad_l == f.pad_l + f.roi_size \div 2
        pad_r == f.pad_r + f.roi_size \div 2
        X_spec_pad == Pad(f.X_spec, pad_l, pad_r)
        g == [f EXCEPT !.pass = "B", !.mask = Returned(f)]
        h == pad_normalize(g, pad_l, pad_r,
                           separate_tta_divisor(f.X_spec, X_spec_pad))
    IN  separate_extract(h, h.X_spec_pad, f.roi_size)

\* Separator.separate_tta, line 93
Average(a, b) ==
    [k \in 1..BroadcastLen(Len(a), Len(b)) |->
        QMul(QAdd(Bcast(a, k), Bcast(b, k)), <<1, 2>>)]

\* Separator.separate_tta, lines 92-97
separate_tta_finish(f) ==
    LET mask_tta == Slice(Returned(f), f.roi_size \div 2, Len(Returned(f)))
        a == Slice(f.mask, 0, f.n_frame)
        b == Slice(mask_tta, 0, f.n_frame)
    IN  IF BroadcastLen(Len(a), Len(b)) < 0
        THEN Raise([f EXCEPT !.mask_tta = mask_tta], "broadcast")
        ELSE postprocess([f EXCEPT !.mask_tta = mask_tta], Average(a, b))

-----------------------------------------------------------------------------
(* The caller of the engine: a thread holds a Separator and a spectrogram  *)
(* and calls separate or separate_tta on them, once and then once more     *)

NoCall ==
    [pc |-> "none", err |-> "", method |-> "", sp |-> Separator(0, 0, 0, FALSE),
     mask |-> <<>>, y_spec |-> <<>>, v_spec |-> <<>>, rets |-> <<>>]

\* what a finished call leaves with its caller
Outcome(f) ==
    [pc |-> f.pc, err |-> f.err, method |-> f.method, sp |-> f.sp,
     mask |-> f.mask, y_spec |-> f.y_spec, v_spec |-> f.v_spec, rets |-> f.rets]

\* the locals of a call before it starts
Frame(sp, X_spec, pc) ==
    [sp |-> sp, X_spec |-> X_spec, X0 |-> X_spec, pc |-> pc, err |-> "",
     method |-> "", pass |-> "", n_frame |-> 0, pad_l |-> 0, pad_r |-> 0,
     roi_size |-> 0, X_spec_pad |-> <<>>, X_dataset |-> <<>>, patches |-> 0,
     i |-> 0, mask_list |-> <<>>, mask |-> <<>>, mask_tta |-> <<>>,
     y_spec |-> <<>>, v_spec |-> <<>>, predicts |-> 0, rets |-> <<>>,
     prev |-> NoCall, rebuilt |-> FALSE]

Idle == Frame(Separator(0, 0, 0, FALSE), <<>>, "idle")

Amps == {<<a, 1>> : a \in -MaxAmp..MaxAmp}

Spectrograms == UNION {[1..n -> Amps] : n \in 0..MaxFrames}

Step(t, f) == th' = [th EXCEPT ![t] = f]

Call_separate(t) ==
    /\ th[t].pc = "ready"
    /\ Step(t, separate_enter(th[t]))
    /\ UNCHANGED <<req, fs>>

Call_separate_tta(t) ==
    /\ th[t].pc = "ready"
    /\ Step(t, separate_tta_enter(th[t]))
    /\ UNCHANGED <<req, fs>>

Predict(t) ==
    /\ th[t].pc = "batch"
    /\ th[t].i < th[t].patches
    /\ Step(t, separate_batch(th[t]))
    /\ UNCHANGED <<req, fs>>

PredictRaises(t) ==
    /\ th[t].pc = "batch"
    /\ th[t].i < th[t].patches
    /\ Step(t, separate_batch_raises(th[t]))
    /\ UNCHANGED <<req, fs>>

Concat(t) ==
    /\ th[t].pc = "batch"
    /\ th[t].i >= th[t].patches
    /\ Step(t, separate_concat(th[t]))
    /\ UNCHANGED <<req, fs>>

Finish_separate(t) ==
    /\ th[t].pc = "separated"
    /\ th[t].method = "separate"
    /\ Step(t, separate_finish(th[t]))
    /\ UNCHANGED <<req, fs>>

Tta_second(t) ==
    /\ th[t].pc = "separated"
    /\ th[t].method = "separate_tta"
    /\ th[t].pass = "A"
    /\ Step(t, separate_tta_second(th[t]))
    /\ UNCHANGED <<req, fs>>

Tta_finish(t) ==
    /\ th[t].pc = "separated"
    /\ th[t].method = "separate_tta"
    /\ th[t].pass = "B"
    /\ Step(t, separate_tta_finish(th[t]))
    /\ UNCHANGED <<req, fs>>

\* the caller keeps the outcome and is ready to call again, same arguments
Again(t) ==
    /\ th[t].pc \in {"returned", "raised"}
    /\ th[t].prev.pc = "none"
    /\ Step(t, [Frame(th[t].sp, th[t].X_spec, "ready")
                   EXCEPT !.X0 = th[t].X0, !.prev = Outcome(th[t])])
    /\ UNCHANGED <<req, fs>>

\* the caller builds a Separator of another batch size and repeats its call
Rebuild(t) ==
    /\ th[t].pc = "ready"
    /\ th[t].prev.pc # "none"
    /\ \E b \in (1..MaxBatch) \ {th[t].sp.batchsize} :
          LET f == [th[t] EXCEPT !.rebuilt = TRUE,
                       !.sp = Separator(@.offset, b, @.cropsize, @.postprocess)]
          IN  Step(t, IF f.prev.method = "separate"
                      THEN separate_enter(f) ELSE separate_tta_enter(f))
    /\ UNCHANGED <<req, fs>>

Engine(t) ==
    \/ Call_separate(t)
    \/ Call_separate_tta(t)
    \/ Predict(t)
    \/ Concat(t)
    \/ Finish_separate(t)
    \/ Tta_second(t)
    \/ Tta_finish(t)

-----------------------------------------------------------------------------
(* The /separate handler, separate_audio: one request per thread.  Files   *)
(* are named by fixed paths in the server's working directory.             *)

HandlerBatchsize == 4
HandlerCropsize == 256
SampleRate == 22050
\* model.offset of nets.CascadedNet
ModelOffset == 64

Links == 1..NumLinks

Absent == [sr |-> 0, wave |-> <<>>]

\* the audio behind a video link
Wave(link) ==
    [sr |-> SampleRate,
     wave |-> [k \in 1..AudioFrames |-> ((k * link) % (2 * MaxAmp + 1)) - MaxAmp]]

\* librosa.load and spec_utils.wave_to_spectrogram, lines 146-150
wave_to_spectrogram(file) == [k \in 1..Len(file.wave) |-> <<file.wave[k], 1>>]

\* spec_utils.spectrogram_to_wave and the sf.write argument, lines 162-169
spectrogram_to_wave(spec) == [sr |-> SampleRate, wave |-> spec]

NewRequest == [pc |-> "new", link |-> 0, code |-> 0, body |-> <<>>, wrote |-> {}]

Respond(r, code, body) == [r EXCEPT !.pc = "done", !.code = code, !.body = body]

\* lines 107-110
H_receive(t) ==
    /\ req[t].pc = "new"
    /\ \/ req' = [req EXCEPT ![t] = Respond(@, 400, <<"No video link provided.">>)]
       \/ \E link \in Links :
             req' = [req EXCEPT ![t] = [@ EXCEPT !.pc = "download", !.link = link]]
    /\ UNCHANGED <<th, fs>>

\* lines 113-129: the download writes downloaded_audio.wav, or raises
H_download(t) ==
    /\ req[t].pc = "download"
    /\ \/ /\ fs' = [fs EXCEPT !.audio = Wave(req[t].link)]
          /\ req' = [req EXCEPT ![t].pc = "model"]
       \/ /\ req' = [req EXCEPT ![t] = Respond(@, 500, <<"download">>)]
          /\ UNCHANGED fs
    /\ UNCHANGED th

\* lines 132-139
H_load_model(t) ==
    /\ req[t].pc = "model"
    /\ req' = [req EXCEPT ![t] =
                  IF fs.model THEN [@ EXCEPT !.pc = "audio"]
                  ELSE Respond(@, 400, <<"Model file does not exist.">>)]
    /\ UNCHANGED <<th, fs>>

\* lines 142-157: the audio file is read and the Separator is built
H_load_audio(t) ==
    /\ req[t].pc = "audio"
    /\ IF fs.audio = Absent
       THEN /\ req' = [req EXCEPT ![t] = Respond(@, 400, <<"Audio file does not exist.">>)]
            /\ UNCHANGED th
       ELSE /\ req' = [req EXCEPT ![t].pc = "separate"]
            /\ th' = [th EXCEPT ![t] =
                         Frame(Separator(ModelOffset, HandlerBatchsize,
                                         HandlerCropsize, FALSE),
                               wave_to_spectrogram(fs.audio), "ready")]
    /\ UNCHANGED fs

\* line 159: sp.separate(X_spec)
H_separate(t) ==
    /\ req[t].pc = "separate"
    /\ \/ Call_separate(t)
       \/ Predict(t)
       \/ PredictRaises(t)
       \/ Concat(t)
       \/ Finish_separate(t)

\* lines 162-168: instruments.wav is written
H_write_instruments(t) ==
    /\ req[t].pc = "separate"
    /\ th[t].pc = "returned"
    /\ fs' = [fs EXCEPT !.instruments = spectrogram_to_wave(th[t].y_spec)]
    /\ req' = [req EXCEPT ![t].pc = "vocals", ![t].wrote = @ \cup {"instruments.wav"}]
    /\ UNCHANGED th

\* line 169: vocals.wav is written
H_write_vocals(t) ==
    /\ req[t].pc = "vocals"
    /\ fs' = [fs EXCEPT !.vocals = spectrogram_to_wave(th[t].v_spec)]
    /\ req' = [req EXCEPT ![t].pc = "respond", ![t].wrote = @ \cup {"vocals.wav"}]
    /\ UNCHANGED th

\* lines 171-174
H_respond(t) ==
    /\ req[t].pc = "respond"
    /\ req' = [req EXCEPT ![t] = Respond(@, 200, <<"instruments.wav", "vocals.wav">>)]
    /\ UNCHANGED <<th, fs>>

\* lines 176-177: whatever separate raised becomes the 500 response
H_except(t) ==
    /\ req[t].pc = "separate"
    /\ th[t].pc = "raised"
    /\ req' = [req EXCEPT ![t] = Respond(@, 500, <<th[t].err>>)]
    /\ UNCHANGED <<th, fs>>

Handler(t) ==
    \/ H_receive(t)
    \/ H_download(t)
    \/ H_load_model(t)
    \/ H_load_audio(t)
    \/ H_separate(t)
    \/ H_write_instruments(t)
    \/ H_write_vocals(t)
    \/ H_respond(t)
    \/ H_except(t)

NoRequest == [NewRequest EXCEPT !.pc = "none"]

NoFiles == [audio |-> Absent, instruments |-> Absent, vocals |-> Absent, model |-> TRUE]

InitHttp ==
    /\ th = [t \in Threads |-> Idle]
    /\ req = [t \in Threads |-> NewRequest]
    /\ \E m \in BOOLEAN : fs = [NoFiles EXCEPT !.model = m]

NextHttp == \E t \in Threads : Handler(t)

SpecHttp == InitHttp /\ [][NextHttp]_vars

-----------------------------------------------------------------------------
(* The engine on its own                                                   *)

Init ==
    /\ \E X_spec \in Spectrograms, cropsize \in 1..MaxCrop, offset \in 0..MaxOffset,
          batchsize \in 1..MaxBatch :
          th = [t \in Threads |->
                   IF t = 1
                   THEN Frame(Separator(offset, batchsize, cropsize, FALSE),
                              X_spec, "ready")
                   ELSE Idle]
    /\ req = [t \in Threads |-> NoRequest]
    /\ fs = NoFiles

Next == Engine(1) \/ Again(1) \/ Rebuild(1)

Spec == Init /\ [][Next]_vars

-----------------------------------------------------------------------------
(* The Spectral Splitter on its own: _postprocess on any spectrogram and   *)
(* any mask of its shape                                                   *)

\* masks of either phase, in steps of 1/MaskSteps
MaskValues == {Q(a, MaskSteps) : a \in -MaskSteps..MaskSteps}

Split(t) ==
    /\ th[t].pc = "split"
    /\ Step(t, postprocess(th[t], th[t].mask))
    /\ UNCHANGED <<req, fs>>

InitSplit ==
    /\ \E n \in 0..SplitFrames, pp \in BOOLEAN :
          \E S \in [1..n -> Amps], M \in [1..n -> MaskValues] :
             th = [t \in Threads |->
                      IF t = 1
                      THEN [Frame(Separator(0, 1, 1, pp), S, "split") EXCEPT !.mask = M]
                      ELSE Idle]
    /\ req = [t \in Threads |-> NoRequest]
    /\ fs = NoFiles

NextSplit == Split(1)

SpecSplit == InitSplit /\ [][NextSplit]_vars

-----------------------------------------------------------------------------
(* Claims                                                                  *)

Eng == th[1]

AllZero(X) == \A k \in 1..Len(X) : X[k] = Zero

\* C1: when _separate returns on a padded spectrogram of length L with
\* (L - 2*offset) % roi_size = 0, patch i was cut from [i*roi_size,
\* i*roi_size + cropsize) and its prediction fills exactly frames
\* [i*roi_size, (i+1)*roi_size) of the mask, whose length is L - 2*offset;
\* every patch has the full cropsize frames (np.asarray never fails on them),
\* and _separate fails to return only when the padded spectrogram holds no
\* patch at all (L = 2*offset, the padding of a spectrogram of no frames).
C1_TilingCoverage ==
    LET f == Eng
        L == Len(f.X_spec_pad)
        roi == f.roi_size
        off == f.sp.offset
    IN  /\ f.err # "asarray"
        /\ f.err = "concatenate" => (L = 2 * off /\ f.n_frame = 0)
        /\ (f.pc = "separated" /\ (L - 2 * off) % roi = 0) =>
           LET mask == Returned(f)
               N == (L - 2 * off) \div roi
           IN  /\ Len(mask) = L - 2 * off
               /\ Len(f.X_dataset) = N
               /\ \A i \in 0..(N - 1) :
                     /\ f.X_dataset[i + 1] =
                           SubSeq(f.X_spec_pad, i * roi + 1, i * roi + f.sp.cropsize)
                     /\ SubSeq(mask, i * roi + 1, (i + 1) * roi) =
                           PredictCrop(SubSeq(f.X_spec_pad, i * roi + 1,
                                              i * roi + f.sp.cropsize), off)

C1_Witness ==
    /\ Eng.pc = "separated"
    /\ Eng.sp.offset >= 1
    /\ Eng.patches >= 2
    /\ (Len(Eng.X_spec_pad) - 2 * Eng.sp.offset) % Eng.roi_size = 0
    /\ ~AllZero(Eng.X_spec)
    /\ Returned(Eng)[1] # Returned(Eng)[2]

\* C3: a call of the same method on the same spectrogram by a Separator that
\* differs in batchsize alone gets the same mask from every call of
\* _separate, and the batches are consecutive, of at most batchsize patches,
\* and hold every patch once.
C3_BatchInvariance ==
    LET f == Eng
    IN  /\ (f.pc = "separated" /\ f.prev.pc # "none" /\ f.prev.method = f.method) =>
              /\ Len(f.prev.rets) >= Len(f.rets)
              /\ Returned(f) = f.prev.rets[Len(f.rets)]
        /\ f.pc = "separated" =>
              /\ Len(f.mask_list) = (f.patches + f.sp.batchsize - 1) \div f.sp.batchsize
              /\ \A j \in 1..Len(f.mask_list) :
                    Len(f.mask_list[j]) =
                       f.roi_size * Min(f.sp.batchsize,
                                        f.patches - (j - 1) * f.sp.batchsize)

C3_Witness ==
    /\ Eng.pc = "separated"
    /\ Eng.rebuilt
    /\ Eng.prev.pc = "returned"
    /\ Eng.prev.method = Eng.method
    /\ Eng.prev.sp.batchsize = 1
    /\ Eng.sp.batchsize = 2
    /\ Eng.patches = 3
    /\ ~AllZero(Eng.X_spec)

\* C7: separate leaves the caller's spectrogram and the Separator's fields
\* as they were, and a second separate on them ends as the first did: the
\* same mask, the same target and residual.
C7_Idempotent ==
    LET f == Eng
    IN  /\ f.X_spec = f.X0
        /\ (f.prev.pc # "none" /\ ~f.rebuilt) => f.sp = f.prev.sp
        /\ (/\ f.pc \in {"returned", "raised"}
            /\ f.method = "separate"
            /\ f.prev.method = "separate"
            /\ ~f.rebuilt) => Outcome(f) = f.prev

C7_Witness ==
    /\ Eng.pc = "returned"
    /\ Eng.method = "separate"
    /\ Eng.prev.method = "separate"
    /\ Eng.prev.pc = "returned"
    /\ ~Eng.rebuilt
    /\ Len(Eng.X_spec) >= 2
    /\ \E k \in 1..Len(Eng.y_spec) : Eng.y_spec[k] \notin {Zero, NaN}

PreconditionViolated(f) == f.sp.cropsize <= 2 * f.sp.offset \/ Len(f.X_spec) = 0

\* C8: a call of separate or separate_tta with cropsize <= 2*offset or with a
\* spectrogram of no frames never invokes predict_mask and never returns a
\* (target, residual) pair; it has no patch to run and ends raising.
C8_PreconditionFails ==
    LET f == Eng
    IN  (f.method # "" /\ PreconditionViolated(f)) =>
           /\ f.predicts = 0
           /\ f.pc \in {"batch", "raised"}
           /\ f.pc = "batch" => f.patches <= 0
           /\ f.y_spec = <<>> /\ f.v_spec = <<>>

C8_Witness ==
    /\ Eng.pc = "raised"
    /\ Eng.method = "separate_tta"
    /\ Len(Eng.X_spec) = 0
    /\ Eng.sp.offset >= 1
    /\ Eng.sp.cropsize > 2 * Eng.sp.offset

\* C2 (as claimed): for n_frames > 0 and cropsize > 2*offset, separate_tta
\* ends with Pass A's mask and the trimmed Pass B mask both of length
\* n_frames, and the combined mask is their elementwise average.
C2_TtaTrim ==
    LET f == Eng
    IN  (/\ f.method = "separate_tta"
         /\ f.n_frame > 0
         /\ f.sp.cropsize > 2 * f.sp.offset
         /\ f.pc \in {"returned", "raised"}) =>
           /\ f.pc = "returned"
           /\ Len(Slice(f.rets[1], 0, f.n_frame)) = f.n_frame
           /\ Len(Slice(f.mask_tta, 0, f.n_frame)) = f.n_frame
           /\ f.mask = [k \in 1..f.n_frame |->
                           QMul(QAdd(f.rets[1][k], f.mask_tta[k]), <<1, 2>>)]

\* C4 (as claimed): on a spectrogram of zeros only, no NaN is passed to the
\* model, the call does not fail, and target and residual are zero throughout.
C4_Silence ==
    LET f == Eng
    IN  (/\ f.method # ""
         /\ Len(f.X_spec) > 0
         /\ AllZero(f.X0)
         /\ f.sp.cropsize > 2 * f.sp.offset) =>
           /\ f.pc # "raised"
           /\ \A i \in 1..Len(f.X_dataset) :
                 \A k \in 1..Len(f.X_dataset[i]) : IsFinite(f.X_dataset[i][k])
           /\ f.pc = "returned" =>
                 /\ f.y_spec = Zeros(Len(f.X_spec))
                 /\ f.v_spec = Zeros(Len(f.X_spec))

\* C10 (as claimed): the Pass A mask of separate_tta, cut to n_frames, is the
\* mask separate computed on the same spectrogram with the same Separator.
C10_PassAIsSeparate ==
    LET f == Eng
    IN  (/\ f.method = "separate_tta"
         /\ f.pass = "A"
         /\ f.pc = "separated"
         /\ f.prev.pc = "returned"
         /\ f.prev.method = "separate"
         /\ ~f.rebuilt) =>
           Slice(Returned(f), 0, f.n_frame) = f.prev.mask

\* C9: _postprocess returns target = S * M' and residual = S - target, both
\* of the shape of S, so that target + residual = S in every element; M' is
\* M when the postprocess flag is off.
C9_Conservation ==
    LET f == Eng
        Mp == postprocess_mask(f.sp, f.mask)
    IN  f.pc # "split" =>
           /\ f.pc = "returned"
           /\ Len(f.y_spec) = Len(f.X_spec)
           /\ Len(f.v_spec) = Len(f.X_spec)
           /\ ~f.sp.postprocess => Mp = f.mask
           /\ \A k \in 1..Len(f.X_spec) :
                 /\ f.y_spec[k] = Q(f.X_spec[k][1] * Mp[k][1], f.X_spec[k][2] * Mp[k][2])
                 /\ QAdd(f.y_spec[k], f.v_spec[k]) = f.X_spec[k]
                 /\ f.v_spec[k] = QAdd(f.X_spec[k], <<-f.y_spec[k][1], f.y_spec[k][2]>>)

C9_Witness ==
    /\ Eng.pc = "returned"
    /\ Eng.method = ""
    /\ Eng.sp.postprocess
    /\ Len(Eng.X_spec) = 2
    /\ postprocess_mask(Eng.sp, Eng.mask) # Eng.mask
    /\ \E k \in 1..2 : Eng.y_spec[k] # Zero /\ Eng.v_spec[k] # Zero

PredictFailed(t) == th[t].err = "predict_mask"

\* C5: once predict_mask has failed on a batch of a request, _separate has
\* returned no mask and runs no further batch, separate has raised, the
\* request writes neither instruments.wav nor vocals.wav, and the only
\* response it gets is the error response.
C5_InferenceFailureIsFatal ==
    \A t \in Threads :
       PredictFailed(t) =>
          /\ th[t].pc = "raised"
          /\ th[t].rets = <<>> /\ th[t].mask = <<>>
          /\ th[t].y_spec = <<>> /\ th[t].v_spec = <<>>
          /\ th[t].predicts = Len(th[t].mask_list) + 1
          /\ th[t].i = Len(th[t].mask_list) * th[t].sp.batchsize
          /\ req[t].wrote = {}
          /\ req[t].pc \in {"separate", "done"}
          /\ req[t].pc = "done" => (req[t].code = 500 /\ req[t].body = <<"predict_mask">>)

C5_Witness ==
    \E t \in Threads :
       /\ PredictFailed(t)
       /\ req[t].pc = "done"
       /\ req[t].code = 500
       /\ th[t].predicts = 2
       /\ Len(th[t].mask_list) = 1

\* C6 (as claimed): under every interleaving of two requests, each request
\* separates the audio of its own download, and the files its response names
\* hold the separation of its own audio.
C6_RequestsIsolated ==
    \A t \in Threads :
       /\ req[t].pc \in {"separate", "vocals", "respond"} =>
             th[t].X0 = wave_to_spectrogram(Wave(req[t].link))
       /\ (req[t].pc = "done" /\ req[t].code = 200) =>
             /\ th[t].X0 = wave_to_spectrogram(Wave(req[t].link))
             /\ fs.instruments = spectrogram_to_wave(th[t].y_spec)
             /\ fs.vocals = spectrogram_to_wave(th[t].v_spec)

====
